---------------------------- MODULE Spec2Model ----------------------------
(***************************************************************************)
(* A model of src/table_extraction.py: the extraction of the 11 x 16 table *)
(* of an ICCAS report from the text of its pages, and the check of the     *)
(* extracted columns against the totals.                                   *)
(*                                                                         *)
(* Text is a sequence of characters, each character a one-character        *)
(* string.  Three characters that a TLA+ string cannot hold are atoms:     *)
(* AGrave (U+00E0), GeqSign (U+2265) and NL (the line feed).               *)
(* Sequences are 1-based: the code's row index i is index i + 1 here, and  *)
(* an offset the code computes (str.find, a slice bound) keeps the code's  *)
(* 0-based value.                                                          *)
(***************************************************************************)
EXTENDS Integers, Sequences, FiniteSets, TLC

AGrave == "a-grave"
GeqSign == "geq-sign"
NL == "line-feed"

None == [kind |-> "None"]

---------------------------------------------------------------------------
(* Python's str and list operations, as the code uses them.                *)

Min(S) == CHOOSE x \in S : \A y \in S : x <= y

\* re.IGNORECASE: the letters the patterns hold are compared in lower case.
Upper ==
  <<"A","B","C","D","E","F","G","H","I","J","K","L","M","N","O","P","Q","R","S","T","U","V","W","X","Y","Z">>
LowerOf ==
  <<"a","b","c","d","e","f","g","h","i","j","k","l","m","n","o","p","q","r","s","t","u","v","w","x","y","z">>
Lower(c) ==
  IF \E k \in 1..Len(Upper) : Upper[k] = c
  THEN LowerOf[CHOOSE k \in 1..Len(Upper) : Upper[k] = c]
  ELSE c

\* s[i0:i0+len(lit)] == lit, with i0 a 0-based offset.
StartsAt(s, i0, lit) ==
  /\ i0 >= 0
  /\ i0 + Len(lit) <= Len(s)
  /\ \A k \in 1..Len(lit) : s[i0 + k] = lit[k]

\* The same, ignoring case (lit is in lower case).
StartsAtI(s, i0, lit) ==
  /\ i0 >= 0
  /\ i0 + Len(lit) <= Len(s)
  /\ \A k \in 1..Len(lit) : Lower(s[i0 + k]) = lit[k]

\* str.find(sub, start): the lowest offset >= start where sub occurs, or -1.
Find(s, sub, start) ==
  LET hits == {i0 \in start..(Len(s) - Len(sub)) : StartsAt(s, i0, sub)}
  IN  IF hits = {} THEN -1 ELSE Min(hits)

\* s[start:] for any integer start (a negative start counts from the end).
SliceFrom(s, start) ==
  LET from == IF start < 0 THEN (IF Len(s) + start < 0 THEN 0 ELSE Len(s) + start)
              ELSE start
  IN  SubSeq(s, from + 1, Len(s))

\* lst[a:b] for 0 <= a <= b: the slice is cut at the end of the list.
Slice(lst, a, b) == SubSeq(lst, a + 1, IF b < Len(lst) THEN b ELSE Len(lst))

\* str.replace(old, new): every non-overlapping occurrence, left to right.
RECURSIVE ReplaceFrom(_, _, _, _)
ReplaceFrom(s, old, new, start) ==
  LET i0 == Find(s, old, start)
  IN  IF i0 = -1 THEN SubSeq(s, start + 1, Len(s))
      ELSE SubSeq(s, start + 1, i0) \o new \o ReplaceFrom(s, old, new, i0 + Len(old))

Replace(s, old, new) == ReplaceFrom(s, old, new, 0)

\* str.split(sep) for a one-character sep: the pieces between the separators,
\* empty pieces included; len(result) = number of separators + 1.
Split(s, sep) ==
  LET IsCut(i) == i = Len(s) + 1 \/ s[i] = sep
      cuts == SelectSeq([i \in 1..(Len(s) + 1) |-> i], IsCut)
  IN  [k \in 1..Len(cuts) |->
         SubSeq(s, (IF k = 1 THEN 1 ELSE cuts[k - 1] + 1), cuts[k] - 1)]

\* The concatenation of a sequence of texts.
RECURSIVE ConcatRange(_, _, _)
ConcatRange(ss, lo, hi) ==
  IF lo > hi THEN <<>>
  ELSE IF lo = hi THEN ss[lo]
  ELSE LET mid == (lo + hi) \div 2
       IN  ConcatRange(ss, lo, mid) \o ConcatRange(ss, mid + 1, hi)

Concat(ss) == ConcatRange(ss, 1, Len(ss))

\* sep.join(parts)
Join(parts, sep) ==
  Concat([k \in 1..Len(parts) |-> IF k = 1 THEN parts[k] ELSE sep \o parts[k]])

---------------------------------------------------------------------------
(* The value converters.  A numeric value is [kind, m, e]: an int m        *)
(* (kind "int"), the decimal number m * 10^e with m not a multiple of 10   *)
(* (kind "float"), math.nan (kind "nan"), or +/- infinity (kind "inf",     *)
(* m the sign).  A converter that raises returns ValueError.               *)

Digits == <<"0","1","2","3","4","5","6","7","8","9">>
IsDigit(c) == \E k \in 1..10 : Digits[k] = c
DigitVal(c) == (CHOOSE k \in 1..10 : Digits[k] = c) - 1
AllDigits(s) == \A k \in 1..Len(s) : IsDigit(s[k])

RECURSIVE DigitsValue(_)
DigitsValue(s) ==
  IF s = <<>> THEN 0
  ELSE 10 * DigitsValue(SubSeq(s, 1, Len(s) - 1)) + DigitVal(s[Len(s)])

NaN == [kind |-> "nan", m |-> 0, e |-> 0]
ValueError == [kind |-> "ValueError", m |-> 0, e |-> 0]
IntValue(v) == [kind |-> "int", m |-> v, e |-> 0]
Infinity(sign) == [kind |-> "inf", m |-> sign, e |-> 0]

RECURSIVE FloatValue(_, _)
FloatValue(m, e) ==
  IF m = 0 THEN [kind |-> "float", m |-> 0, e |-> 0]
  ELSE IF m % 10 = 0 THEN FloatValue(m \div 10, e + 1)
  ELSE [kind |-> "float", m |-> m, e |-> e]

IsSign(c) == c = "+" \/ c = "-"
SignOf(s) == IF s # <<>> /\ s[1] = "-" THEN -1 ELSE 1
Unsigned(s) == IF s # <<>> /\ IsSign(s[1]) THEN Tail(s) ELSE s

\* int(s) of a text without blanks: an optional sign and decimal digits.
ParseInt(s) ==
  LET body == Unsigned(s)
  IN  IF body # <<>> /\ AllDigits(body)
      THEN IntValue(SignOf(s) * DigitsValue(body))
      ELSE ValueError

LowerText(s) == [k \in 1..Len(s) |-> Lower(s[k])]

\* float(s) of a text without blanks: an optional sign, then nan, inf,
\* infinity, or a decimal literal with an optional exponent.
ParseFloat(s) ==
  LET body == LowerText(Unsigned(s))
      ePos == Find(body, <<"e">>, 0)
      mant == IF ePos = -1 THEN body ELSE SubSeq(body, 1, ePos)
      expo == IF ePos = -1 THEN <<>> ELSE SubSeq(body, ePos + 2, Len(body))
      dot == Find(mant, <<".">>, 0)
      whole == IF dot = -1 THEN mant ELSE SubSeq(mant, 1, dot)
      frac == IF dot = -1 THEN <<>> ELSE SubSeq(mant, dot + 2, Len(mant))
      mantOk == AllDigits(whole) /\ AllDigits(frac) /\ Len(whole) + Len(frac) > 0
      expoOk == ePos = -1 \/ (Unsigned(expo) # <<>> /\ AllDigits(Unsigned(expo)))
      expoVal == IF ePos = -1 THEN 0 ELSE SignOf(expo) * DigitsValue(Unsigned(expo))
  IN  IF body = <<"n","a","n">> THEN NaN
      ELSE IF body = <<"i","n","f">> \/ body = <<"i","n","f","i","n","i","t","y">>
      THEN Infinity(SignOf(s))
      ELSE IF mantOk /\ expoOk
      THEN FloatValue(SignOf(s) * DigitsValue(whole \o frac), expoVal - Len(frac))
      ELSE ValueError

\* def to_int(s)
to_int(s) ==
  IF s = <<>> THEN NaN
  ELSE ParseInt(Replace(Replace(s, <<".">>, <<>>), <<" ">>, <<>>))

\* def to_float(s)
to_float(s) ==
  IF s = <<>> THEN NaN
  ELSE ParseFloat(Replace(s, <<",">>, <<".">>))

\* common.cartesian_join: every prefix joined with every field, prefix-major.
\* A joined name is kept as the pair <<prefix, field>>.
cartesian_join(prefixes, fields) ==
  [k \in 1..(Len(prefixes) * Len(fields)) |->
     <<prefixes[((k - 1) \div Len(fields)) + 1], fields[((k - 1) % Len(fields)) + 1]>>]

COLUMN_PREFIXES == <<"male_", "female_", "">>
COLUMN_FIELDS ==
  <<"cases", "cases_percentage", "deaths", "deaths_percentage", "fatality_rate">>
COLUMNS == <<(<<"", "age_group">>)>> \o cartesian_join(COLUMN_PREFIXES, COLUMN_FIELDS)

\* COLUMN_CONVERTERS: the converter of each column, by name.
COLUMN_CONVERTERS ==
  LET five == <<"to_int", "to_float", "to_int", "to_float", "to_float">>
  IN  <<"str">> \o five \o five \o five

\* converter(value)
ApplyConverter(converter, value) ==
  CASE converter = "str" -> value
    [] converter = "to_int" -> to_int(value)
    [] converter = "to_float" -> to_float(value)

\* convert_values without its length check: zip stops at the shorter list.
convert_values_zip(values, converters) ==
  LET n == IF Len(values) < Len(converters) THEN Len(values) ELSE Len(converters)
      out == [k \in 1..n |-> ApplyConverter(converters[k], values[k])]
  IN  IF \E k \in 1..n : converters[k] # "str" /\ out[k] = ValueError THEN ValueError ELSE out

\* def convert_values(values, converters): the converted values, or ValueError
\* when the lengths differ or a converter raises.
convert_values(values, converters) ==
  IF Len(values) # Len(converters) THEN ValueError
  ELSE LET out == [k \in 1..Len(values) |-> ApplyConverter(converters[k], values[k])]
       IN  IF \E k \in 1..Len(out) : converters[k] # "str" /\ out[k] = ValueError THEN ValueError ELSE out

---------------------------------------------------------------------------
(* The patterns.                                                           *)

\* TABLE_CAPTION_PATTERN.search(text) is not None, for the pattern
\* 'tabella [0-9- ]+ distribuzione dei casi .+ per fascia di et. ', ignoring
\* case: the numbering ends at offset j0, the free part at offset k0.
TABLE_CAPTION_PATTERN(text) ==
  LET tabella == <<"t","a","b","e","l","l","a"," ">>
      distribuzione ==
        <<" ","d","i","s","t","r","i","b","u","z","i","o","n","e"," ","d","e","i"," ","c","a","s","i"," ">>
      fascia == <<" ","p","e","r"," ","f","a","s","c","i","a"," ","d","i"," ","e","t">>
      InNumbering(c) == IsDigit(c) \/ c = "-" \/ c = " "
  IN  \E i0 \in 0..(Len(text) - 1) :
        /\ StartsAtI(text, i0, tabella)
        /\ \E j0 \in (i0 + Len(tabella) + 1)..(Len(text) - 1) :
             /\ StartsAtI(text, j0, distribuzione)
             /\ \A k \in (i0 + Len(tabella) + 1)..j0 : InNumbering(text[k])
             /\ \E k0 \in (j0 + Len(distribuzione) + 1)..(Len(text) - 1) :
                  /\ StartsAtI(text, k0, fascia)
                  /\ k0 + Len(fascia) + 2 <= Len(text)
                  /\ text[k0 + Len(fascia) + 2] = " "

\* The length of the match of unknown_age_matcher,
\* '(eta non nota|non not[ao])' ignoring case, at offset i0; 0 for no match.
UnknownAgeMatchLen(text, i0) ==
  LET eta == <<"e","t",AGrave," ","n","o","n"," ","n","o","t","a">>
      non == <<"n","o","n"," ","n","o","t">>
  IN  IF StartsAtI(text, i0, eta) THEN Len(eta)
      ELSE IF /\ StartsAtI(text, i0, non)
              /\ i0 + Len(non) + 1 <= Len(text)
              /\ Lower(text[i0 + Len(non) + 1]) \in {"a", "o"}
      THEN Len(non) + 1
      ELSE 0

\* unknown_age_matcher.sub(repl, text): every match, left to right.
RECURSIVE UnknownAgeSubFrom(_, _, _)
UnknownAgeSubFrom(text, repl, start) ==
  LET hits == {i0 \in start..(Len(text) - 1) : UnknownAgeMatchLen(text, i0) > 0}
  IN  IF hits = {} THEN SubSeq(text, start + 1, Len(text))
      ELSE LET i0 == Min(hits)
           IN  SubSeq(text, start + 1, i0) \o repl
                 \o UnknownAgeSubFrom(text, repl, i0 + UnknownAgeMatchLen(text, i0))

unknown_age_matcher_sub(repl, text) == UnknownAgeSubFrom(text, repl, 0)

\* The month names of common.get_italian_date_pattern.
MonthNames ==
  << <<"g","e","n","n","a","i","o">>, <<"f","e","b","b","r","a","i","o">>,
     <<"m","a","r","z","o">>, <<"a","p","r","i","l","e">>,
     <<"m","a","g","g","i","o">>, <<"g","i","u","g","n","o">>,
     <<"l","u","g","l","i","o">>, <<"a","g","o","s","t","o">>,
     <<"s","e","t","t","e","m","b","r","e">>, <<"o","t","t","o","b","r","e">>,
     <<"n","o","v","e","m","b","r","e">>, <<"d","i","c","e","m","b","r","e">>>>

\* The offset after an optional blank at offset p0 (the separator '[ ]?').
AfterSep(text, p0) == {p0} \cup (IF StartsAt(text, p0, <<" ">>) THEN {p0 + 1} ELSE {})

\* A character the hour and minute patterns take for a digit: 'o' is a zero.
IsDigitOrO(c) == IsDigit(c) \/ Lower(c) = "o"
ODigitVal(c) == IF Lower(c) = "o" THEN 0 ELSE DigitVal(c)
InRangeOrO(c, hi) == Lower(c) = "o" \/ (IsDigit(c) /\ DigitVal(c) <= hi)

\* The matches of the time part of DATETIME_PATTERN,
\* '[- ]* ore {hour}:{minute}' with hour '[o0-2]?[o0-9]|3[o0-1]' and minute
\* '[o0-5][o0-9]', starting at offset p0: the sets of [hour, minute].
TimeMatches(text, p0) ==
  LET ore == <<" ","o","r","e"," ">>
      Run(q0) == \A k \in (p0 + 1)..q0 : text[k] = "-" \/ text[k] = " "
      Minute(h0) ==
        IF /\ h0 + 3 <= Len(text)
           /\ text[h0 + 1] = ":"
           /\ InRangeOrO(text[h0 + 2], 5)
           /\ IsDigitOrO(text[h0 + 3])
        THEN {10 * ODigitVal(text[h0 + 2]) + ODigitVal(text[h0 + 3])}
        ELSE {}
      Hour(h0) ==
        (IF /\ h0 + 2 <= Len(text)
            /\ \/ InRangeOrO(text[h0 + 1], 2) /\ IsDigitOrO(text[h0 + 2])
               \/ text[h0 + 1] = "3" /\ InRangeOrO(text[h0 + 2], 1)
         THEN {[hour |-> 10 * ODigitVal(text[h0 + 1]) + ODigitVal(text[h0 + 2]),
                minute |-> mi] : mi \in Minute(h0 + 2)}
         ELSE {})
        \cup
        (IF h0 + 1 <= Len(text) /\ IsDigitOrO(text[h0 + 1])
         THEN {[hour |-> ODigitVal(text[h0 + 1]), minute |-> mi] : mi \in Minute(h0 + 1)}
         ELSE {})
  IN  UNION {Hour(q0 + Len(ore)) :
               q0 \in {q \in p0..(Len(text) - 1) : Run(q) /\ StartsAtI(text, q, ore)}}

\* The matches of DATETIME_PATTERN at offset i0 with a day of d digits: the
\* date of common.get_italian_date_pattern(sep='[ ]?') (day, month name,
\* year, a separator between them), then the time part.
DatetimeMatchesAt(text, i0, d) ==
  IF ~(i0 + d + 1 <= Len(text) /\ AllDigits(SubSeq(text, i0 + 1, i0 + d))) THEN {}
  ELSE UNION {
         UNION {
           UNION {
             IF y0 + 4 <= Len(text) /\ AllDigits(SubSeq(text, y0 + 1, y0 + 4))
             THEN {[year |-> DigitsValue(SubSeq(text, y0 + 1, y0 + 4)), month |-> mo,
                    day |-> DigitsValue(SubSeq(text, i0 + 1, i0 + d)),
                    hour |-> t.hour, minute |-> t.minute] :
                      t \in TimeMatches(text, y0 + 4)}
             ELSE {} :
             y0 \in AfterSep(text, m0 + Len(MonthNames[mo]))} :
           mo \in {k \in 1..12 : StartsAtI(text, m0, MonthNames[k])}} :
         m0 \in AfterSep(text, i0 + d)}

\* DATETIME_PATTERN.search(text), decoded by common.process_datetime_tokens:
\* the leftmost match, its day taking two digits when it can; None for no match.
DATETIME_PATTERN(text) ==
  LET hits == {i0 \in 0..(Len(text) - 1) :
                 DatetimeMatchesAt(text, i0, 2) \cup DatetimeMatchesAt(text, i0, 1) # {}}
  IN  IF hits = {} THEN None
      ELSE LET i0 == Min(hits)
               two == DatetimeMatchesAt(text, i0, 2)
           IN  IF two # {} THEN CHOOSE t \in two : TRUE
               ELSE CHOOSE t \in DatetimeMatchesAt(text, i0, 1) : TRUE

\* datetime(year, month, day, hour, minute): the value, or ValueError for a
\* day or an hour out of range.
DaysInMonth(year, month) ==
  IF month = 2
  THEN (IF (year % 4 = 0 /\ year % 100 # 0) \/ year % 400 = 0 THEN 29 ELSE 28)
  ELSE IF month \in {4, 6, 9, 11} THEN 30 ELSE 31

datetime(t) ==
  IF /\ t.year >= 1
     /\ t.day >= 1 /\ t.day <= DaysInMonth(t.year, t.month)
     /\ t.hour <= 23 /\ t.minute <= 59
  THEN [kind |-> "datetime", year |-> t.year, month |-> t.month, day |-> t.day,
        hour |-> t.hour, minute |-> t.minute]
  ELSE ValueError

TableExtractionError(message) == [kind |-> "TableExtractionError", message |-> message]

\* def extract_datetime(text): a datetime, or the exception raised.
extract_datetime(text) ==
  LET match == DATETIME_PATTERN(text)
  IN  IF match = None
      THEN TableExtractionError("extraction of report datetime failed")
      ELSE datetime(match)

---------------------------------------------------------------------------
(* The documents.  A document is the sequence of its pages; a page is      *)
(* described by its kind, and PageText gives the text PyPDF3 extracts from *)
(* it.  A table page holds the caption, a header and the 11 x 16 cells of  *)
(* the table, blank-separated; a variant of it overwrites the cells in     *)
(* `cells` with the text `tok`, drops the last `drop` cells and appends    *)
(* `extra` words of the totals row that follows the table.                 *)

MaxPages == 3
MaxDrop == 1
MaxExtra == 1
MaxWrong == 1

num_rows == 11
num_columns == Len(COLUMNS)

CoverText ==
  <<"E","p","i","d","e","m","i","a"," ","C","O","V","I","D","-","1","9",NL,
    "A","g","g","i","o","r","n","a","m","e","n","t","o"," ","n","a","z","i","o","n","a","l","e">>
StampText ==
  <<" ","1","2"," ","m","a","r","z","o"," ","2","0","2","1"," ","-"," ","o","r","e"," ","o","9",":","3","o">>
BadHourText ==
  <<" ","1","2"," ","m","a","r","z","o"," ","2","0","2","1"," ","o","r","e"," ","2","9",":","o","o">>
CaptionText ==
  <<" ","T","a","b","e","l","l","a"," ","1"," ","-"," ","D","i","s","t","r","i","b","u","z","i","o","n","e",
    " ","d","e","i"," ","c","a","s","i"," ",NL,"(","n","=","9",")"," ","p","e","r"," ","f","a","s","c","i","a",
    " ","d","i"," ","e","t",AGrave," ","e"," ","s","e","s","s","o"," ">>
NoiseText ==
  <<"F","i","g","u","r","a"," ","1"," ","-"," ","C","a","s","i"," ","p","e","r"," ","f","a","s","c","i","a",
    " ","d","i"," ","e","t",AGrave," ","e"," ","s","e","s","s","o",NL>>
HeaderText ==
  <<"C","l","a","s","s","e",NL,"M","a","s","c","h","i"," ","F","e","m","m","i","n","e"," ","T","o","t","a","l","e"," ">>

RawLabels ==
  << <<"0","-","9">>, <<"1","0","-","1","9">>, <<"2","0","-","2","9">>, <<"3","0","-","3","9">>,
     <<"4","0","-","4","9">>, <<"5","0","-","5","9">>, <<"6","0","-","6","9">>, <<"7","0","-","7","9">>,
     <<"8","0","-","8","9">>, <<GeqSign,"9","0">>,
     <<"E","t",AGrave," ","n","o","n"," ","n","o","t","a">> >>

\* The text of cell c (1 the label, 2..16 the numbers) of row r (1..11) of
\* the unaltered table.
BaseCell(r, c) ==
  IF c = 1 THEN RawLabels[r]
  ELSE LET field == COLUMNS[c][2]
           prefix == COLUMNS[c][1]
       IN  CASE field = "cases" ->
                  (IF prefix = "male_" THEN <<"2">>
                   ELSE IF prefix = "female_" THEN <<"3">> ELSE <<"5">>)
             [] field = "deaths" -> (IF prefix = "" THEN <<"2">> ELSE <<"1">>)
             [] field = "fatality_rate" -> <<"5","0">>
             [] OTHER -> <<"9",",","1">>

TotalsRowWords == << <<"T","o","t","a","l","e">>, <<"2","2">>, <<"1","0","0">> >>

Empty == <<>>
PokeTexts ==
  { Empty, <<"1",".","2","3","4">>, <<"3",","," ","5">>, <<"n","a","n">>, <<"x">>,
    <<"a",","," ","b">> }

Column(c) == {<<r, c>> : r \in 1..num_rows}
PokeCells ==
  { {<<2, 2>>}, {<<2, 3>>}, {<<2, 1>>}, {<<10, 1>>}, {<<11, 1>>}, {<<11, 16>>}, Column(2) }

CoverPage(stamp) ==
  [kind |-> "cover", stamp |-> stamp, cells |-> {}, tok |-> Empty, drop |-> 0, extra |-> 0]
NoisePage ==
  [kind |-> "noise", stamp |-> "", cells |-> {}, tok |-> Empty, drop |-> 0, extra |-> 0]
TablePage(cells, tok, drop, extra) ==
  [kind |-> "table", stamp |-> "", cells |-> cells, tok |-> tok, drop |-> drop, extra |-> extra]
BaseTablePage == TablePage({}, Empty, 0, 0)

CoverStamps == {"stamp", "plain", "badhour", "stamp+caption", "caption"}

TablePages ==
  {TablePage(cells, tok, drop, extra) :
     cells \in PokeCells, tok \in PokeTexts,
     drop \in 0..MaxDrop, extra \in 0..MaxExtra}

\* The blank-separated cells of a table page, row by row.
TableCells(p) ==
  LET all == [k \in 1..(num_rows * num_columns) |->
                LET r == ((k - 1) \div num_columns) + 1
                    c == ((k - 1) % num_columns) + 1
                IN  IF <<r, c>> \in p.cells THEN p.tok ELSE BaseCell(r, c)]
  IN  SubSeq(all, 1, Len(all) - p.drop) \o [k \in 1..p.extra |-> TotalsRowWords[((k - 1) % 3) + 1]]

\* pdf.getPage(i).extractText() for the page described by p.
PageText(p) ==
  CASE p.kind = "cover" ->
         CoverText
           \o (IF p.stamp \in {"stamp", "stamp+caption"} THEN StampText
               ELSE IF p.stamp = "badhour" THEN BadHourText ELSE <<>>)
           \o (IF p.stamp \in {"stamp+caption", "caption"} THEN CaptionText ELSE <<>>)
    [] p.kind = "noise" -> NoiseText
    [] p.kind = "table" -> CaptionText \o HeaderText \o Join(TableCells(p), <<" ">>)

\* The documents of the model: a cover of any kind followed by noise pages
\* and unaltered table pages, or a stamped cover followed by one table page
\* of any variant; and the document of no page.
RECURSIVE SeqsUpTo(_, _)
SeqsUpTo(S, n) ==
  IF n = 0 THEN {<<>>}
  ELSE LET shorter == SeqsUpTo(S, n - 1)
       IN  shorter \cup {Append(q, x) : q \in {t \in shorter : Len(t) = n - 1}, x \in S}

Documents ==
  {<<>>}
    \cup {<<CoverPage(st)>> \o tail :
            st \in CoverStamps, tail \in SeqsUpTo({NoisePage, BaseTablePage}, MaxPages - 1)}
    \cup {<<CoverPage("stamp"), p>> : p \in TablePages}

---------------------------------------------------------------------------
(* The program.                                                            *)

VARIABLES
  pdf,        \* the document: the sequence of its pages
  op,         \* the operation the caller started
  pc,         \* the place the operation has reached
  reads,      \* history: the calls of extract_text, [by, page], in order
  stages,     \* history: the stages of extract that have started, in order
  date,       \* extract: date
  num_pages,  \* find_table_page: num_pages
  i,          \* find_table_page: i
  page,       \* extract: page
  raw_data,   \* extract: raw_data
  tokens,     \* extract: tokens
  row_i,      \* extract: i
  rows,       \* extract: rows
  result,     \* the value the operation returned
  raised,     \* the exception the operation raised
  totals,     \* sanity_check_with_totals: totals
  check       \* the outcome of sanity_check_with_totals

vars ==
  <<pdf, op, pc, reads, stages, date, num_pages, i, page, raw_data, tokens, row_i, rows,
    result, raised, totals, check>>

IndexError == [kind |-> "IndexError"]

\* def extract_text(pdf, page): the text without its line feeds; IndexError
\* (PdfFileReader.getPage) when the document has no such page.
extract_text(doc, n) ==
  IF n < Len(doc) THEN Replace(PageText(doc[n + 1]), <<NL>>, <<>>) ELSE IndexError

\* ['date', *COLUMNS]: the place of a column in a row of the table.
ColumnIndex(col) == 1 + (CHOOSE k \in 1..Len(COLUMNS) : COLUMNS[k] = col)

\* normalize_table with the rows counted from 1: rows 8 and 9 of the code.
normalize_table_off_by_one(table) ==
  [table EXCEPT ![9][ColumnIndex(<<"", "age_group">>)] = <<">","=","9","0">>,
                ![10][ColumnIndex(<<"", "age_group">>)] = <<"u","n","k","n","o","w","n">>]

\* def normalize_table(table), for a table of at least 11 rows.
normalize_table(table) ==
  [table EXCEPT ![10][ColumnIndex(<<"", "age_group">>)] = <<">","=","9","0">>,
                ![11][ColumnIndex(<<"", "age_group">>)] = <<"u","n","k","n","o","w","n">>]

\* table[col].sum(): the sum of the values of the column that are not NaN.
RECURSIVE SumFrom(_, _, _)
SumFrom(table, c, r) ==
  IF r > Len(table) THEN 0
  ELSE (IF table[r][c].kind = "nan" THEN 0 ELSE table[r][c].m) + SumFrom(table, c, r + 1)

ColumnSum(table, col) == SumFrom(table, ColumnIndex(col), 1)

\* The columns sanity_check_with_totals goes through, in its order.
CheckedColumns == cartesian_join(COLUMN_PREFIXES, <<"cases", "deaths">>)

\* sanity_check_with_totals that looks at the cases columns only.
sanity_check_cases_only(table, tot) ==
  LET bad == {k \in 1..Len(CheckedColumns) :
                /\ CheckedColumns[k][2] = "cases"
                /\ ColumnSum(table, CheckedColumns[k]) # tot[CheckedColumns[k]]}
  IN  IF bad = {} THEN None
      ELSE LET col == CheckedColumns[Min(bad)]
           IN  TableExtractionError(
                 [col |-> col, actual_sum |-> ColumnSum(table, col), expected |-> tot[col]])

\* sanity_check_with_totals with a sum that does not skip NaN (skipna=False):
\* the sum of a column that holds NaN is NaN, which differs from every total.
sanity_check_nan_sum(table, tot) ==
  LET HasNaN(col) == \E r \in 1..Len(table) : table[r][ColumnIndex(col)].kind = "nan"
      bad == {k \in 1..Len(CheckedColumns) :
                \/ HasNaN(CheckedColumns[k])
                \/ ColumnSum(table, CheckedColumns[k]) # tot[CheckedColumns[k]]}
  IN  IF bad = {} THEN None
      ELSE LET col == CheckedColumns[Min(bad)]
           IN  TableExtractionError(
                 [col |-> col,
                  actual_sum |-> IF HasNaN(col) THEN -1 ELSE ColumnSum(table, col),
                  expected |-> tot[col]])

\* def sanity_check_with_totals(table, totals): None, or the exception raised
\* for the first column whose sum is not the total given for it.
sanity_check_with_totals(table, tot) ==
  LET bad == {k \in 1..Len(CheckedColumns) :
                ColumnSum(table, CheckedColumns[k]) # tot[CheckedColumns[k]]}
  IN  IF bad = {} THEN None
      ELSE LET col == CheckedColumns[Min(bad)]
           IN  TableExtractionError(
                 [col |-> col, actual_sum |-> ColumnSum(table, col), expected |-> tot[col]])

Init ==
  /\ pdf \in Documents
  /\ op = "none"
  /\ pc = "idle"
  /\ reads = <<>>
  /\ stages = <<>>
  /\ date = None
  /\ num_pages = 0
  /\ i = 0
  /\ page = <<>>
  /\ raw_data = <<>>
  /\ tokens = <<>>
  /\ row_i = 0
  /\ rows = <<>>
  /\ result = None
  /\ raised = None
  /\ totals = None
  /\ check = None

\* CallExtract with the failure of extract_datetime kept for later: the
\* search for the table page goes on.
CallExtractDeferred ==
  /\ pc = "idle"
  /\ op' = "extract"
  /\ stages' = Append(stages, "timestamp")
  /\ reads' = Append(reads, [by |-> "extract", page |-> 0])
  /\ LET text == extract_text(pdf, 0)
         d == IF text = IndexError THEN IndexError ELSE extract_datetime(text)
     IN  IF d.kind = "datetime"
         THEN date' = d /\ UNCHANGED raised
         ELSE raised' = d /\ UNCHANGED date
  /\ pc' = "find_table_page"
  /\ UNCHANGED <<pdf, num_pages, i, page, raw_data, tokens, row_i, rows, result, totals, check>>

\* extract, lines 68-69: the date of the report, from the text of page 0.
CallExtract ==
  /\ pc = "idle"
  /\ op' = "extract"
  /\ stages' = Append(stages, "timestamp")
  /\ reads' = Append(reads, [by |-> "extract", page |-> 0])
  /\ LET text == extract_text(pdf, 0)
         d == IF text = IndexError THEN IndexError ELSE extract_datetime(text)
     IN  IF d.kind = "datetime"
         THEN date' = d /\ pc' = "find_table_page" /\ UNCHANGED raised
         ELSE raised' = d /\ pc' = "raised" /\ UNCHANGED date
  /\ UNCHANGED <<pdf, num_pages, i, page, raw_data, tokens, row_i, rows, result, totals, check>>

\* find_table_page called by the caller itself.
CallFind ==
  /\ pc = "idle"
  /\ op' = "find_table_page"
  /\ pc' = "find_table_page"
  /\ UNCHANGED <<pdf, reads, stages, date, num_pages, i, page, raw_data, tokens, row_i, rows,
                 result, raised, totals, check>>

\* FindStart with the loop started at page 2: range(2, num_pages).
FindStartAt2 ==
  /\ pc = "find_table_page"
  /\ num_pages' = Len(pdf)
  /\ i' = 2
  /\ pc' = "find_loop"
  /\ stages' = IF op = "extract" THEN Append(stages, "locate") ELSE stages
  /\ UNCHANGED <<pdf, op, reads, date, page, raw_data, tokens, row_i, rows, result, raised,
                 totals, check>>

\* FindStart with the loop started at page 0: range(num_pages).
FindStartAt0 ==
  /\ pc = "find_table_page"
  /\ num_pages' = Len(pdf)
  /\ i' = 0
  /\ pc' = "find_loop"
  /\ stages' = IF op = "extract" THEN Append(stages, "locate") ELSE stages
  /\ UNCHANGED <<pdf, op, reads, date, page, raw_data, tokens, row_i, rows, result, raised,
                 totals, check>>

\* find_table_page, lines 107-109: the page count and the start of the loop.
FindStart ==
  /\ pc = "find_table_page"
  /\ num_pages' = Len(pdf)
  /\ i' = 1
  /\ pc' = "find_loop"
  /\ stages' = IF op = "extract" THEN Append(stages, "locate") ELSE stages
  /\ UNCHANGED <<pdf, op, reads, date, page, raw_data, tokens, row_i, rows, result, raised,
                 totals, check>>

\* find_table_page, lines 109-112: one turn of the loop.  The text and the
\* index are the value returned; extract keeps the text as its page.
FindPage ==
  /\ pc = "find_loop"
  /\ i < num_pages
  /\ reads' = Append(reads, [by |-> "find_table_page", page |-> i])
  /\ LET text == extract_text(pdf, i)
     IN  IF TABLE_CAPTION_PATTERN(text)
         THEN /\ IF op = "extract"
                 THEN page' = text /\ pc' = "extract_71" /\ UNCHANGED result
                 ELSE /\ result' = [kind |-> "tuple", text |-> text, index |-> i]
                      /\ pc' = "done"
                      /\ UNCHANGED page
              /\ UNCHANGED i
         ELSE /\ i' = i + 1
              /\ UNCHANGED <<result, page, pc>>
  /\ UNCHANGED <<pdf, op, stages, date, num_pages, raw_data, tokens, row_i, rows, raised,
                 totals, check>>

\* find_table_page, lines 113-114: the loop ended without a return.
FindNone ==
  /\ pc = "find_loop"
  /\ i >= num_pages
  /\ raised' = TableExtractionError("could not find the table in the pdf")
  /\ pc' = "raised"
  /\ UNCHANGED <<pdf, op, reads, stages, date, num_pages, i, page, raw_data, tokens, row_i,
                 rows, result, totals, check>>

\* extract, lines 71-73: the text of the page from the first '0-9' on.
LocateData ==
  /\ pc = "extract_71"
  /\ stages' = Append(stages, "tokenize")
  /\ LET canonical == unknown_age_matcher_sub(<<"u","n","k","n","o","w","n">>, page)
         data_start == Find(canonical, <<"0","-","9">>, 0)
     IN  /\ page' = canonical
         /\ raw_data' = SliceFrom(canonical, data_start)
  /\ pc' = "extract_74"
  /\ UNCHANGED <<pdf, op, reads, date, num_pages, i, tokens, row_i, rows, result, raised,
                 totals, check>>

\* RepairAndSplit without the repair of line 74.
SplitUnrepaired ==
  /\ pc = "extract_74"
  /\ tokens' = Split(raw_data, " ")
  /\ rows' = <<>>
  /\ row_i' = 0
  /\ pc' = "extract_79"
  /\ UNCHANGED <<pdf, op, reads, stages, date, num_pages, i, page, raw_data, result, raised,
                 totals, check>>

\* extract, lines 74-78: the repair of ', ' and the split into tokens.
RepairAndSplit ==
  /\ pc = "extract_74"
  /\ LET repaired == Replace(raw_data, <<",", " ">>, <<",">>)
     IN  /\ raw_data' = repaired
         /\ tokens' = Split(repaired, " ")
  /\ rows' = <<>>
  /\ row_i' = 0
  /\ pc' = "extract_79"
  /\ UNCHANGED <<pdf, op, reads, stages, date, num_pages, i, page, result, raised, totals,
                 check>>

\* BuildRow with each row put in front of the rows built before it.
BuildRowInFront ==
  /\ pc = "extract_79"
  /\ row_i < num_rows
  /\ LET data_start == row_i * num_columns
         end == data_start + num_columns
         values == convert_values(Slice(tokens, data_start, end), COLUMN_CONVERTERS)
     IN  IF values = ValueError
         THEN /\ raised' = ValueError
              /\ pc' = "raised"
              /\ UNCHANGED <<rows, row_i>>
         ELSE /\ rows' = <<(<<date>> \o values)>> \o rows
              /\ row_i' = row_i + 1
              /\ UNCHANGED <<raised, pc>>
  /\ UNCHANGED <<pdf, op, reads, stages, date, num_pages, i, page, raw_data, tokens, result,
                 totals, check>>

\* extract, lines 79-84: one turn of the loop over the rows.
BuildRow ==
  /\ pc = "extract_79"
  /\ row_i < num_rows
  /\ LET data_start == row_i * num_columns
         end == data_start + num_columns
         values == convert_values(Slice(tokens, data_start, end), COLUMN_CONVERTERS)
     IN  IF values = ValueError
         THEN /\ raised' = ValueError
              /\ pc' = "raised"
              /\ UNCHANGED <<rows, row_i>>
         ELSE /\ rows' = Append(rows, <<date>> \o values)
              /\ row_i' = row_i + 1
              /\ UNCHANGED <<raised, pc>>
  /\ UNCHANGED <<pdf, op, reads, stages, date, num_pages, i, page, raw_data, tokens, result,
                 totals, check>>

\* extract, lines 85-86: the table of the rows, normalized and returned.
Normalize ==
  /\ pc = "extract_79"
  /\ row_i >= num_rows
  /\ stages' = Append(stages, "normalize")
  /\ result' = [kind |-> "DataFrame", table |-> normalize_table(rows)]
  /\ pc' = "done"
  /\ UNCHANGED <<pdf, op, reads, date, num_pages, i, page, raw_data, tokens, row_i, rows,
                 raised, totals, check>>

\* The totals a caller may give: those of the unaltered table, with at most
\* MaxWrong of them replaced.
BaseTotal(col) ==
  num_rows * ParseInt(BaseCell(1, ColumnIndex(col) - 1)).m

OtherTotals(col) ==
  {BaseTotal(col) + 1, BaseTotal(col) - ParseInt(BaseCell(1, ColumnIndex(col) - 1)).m, 0}

CheckedColumnSet == {CheckedColumns[k] : k \in 1..Len(CheckedColumns)}

RECURSIVE TotalsWithWrong(_)
TotalsWithWrong(n) ==
  IF n = 0 THEN {[col \in CheckedColumnSet |-> BaseTotal(col)]}
  ELSE LET fewer == TotalsWithWrong(n - 1)
       IN  fewer \cup UNION {{[t EXCEPT ![col] = v] : t \in fewer, v \in OtherTotals(col)} :
                               col \in CheckedColumnSet}

TotalsGiven == TotalsWithWrong(MaxWrong)

\* The caller checks the table extract returned against totals.
SanityCheck ==
  /\ pc = "done"
  /\ op = "extract"
  /\ \E t \in TotalsGiven :
       /\ totals' = t
       /\ check' = sanity_check_with_totals(result.table, t)
  /\ pc' = "checked"
  /\ UNCHANGED <<pdf, op, reads, stages, date, num_pages, i, page, raw_data, tokens, row_i,
                 rows, result, raised>>

Next ==
  \/ CallExtract
  \/ CallFind
  \/ FindStart
  \/ FindPage
  \/ FindNone
  \/ LocateData
  \/ RepairAndSplit
  \/ BuildRow
  \/ Normalize
  \/ SanityCheck

Spec == Init /\ [][Next]_vars

---------------------------------------------------------------------------
(* The properties.                                                         *)

NotFound == TableExtractionError("could not find the table in the pdf")
NoTimestamp == TableExtractionError("extraction of report datetime failed")

\* The pages after the first whose text matches the caption pattern.
MatchingPages ==
  {n \in 1..(Len(pdf) - 1) : TABLE_CAPTION_PATTERN(extract_text(pdf, n))}

\* C3: find_table_page returns the text and the index of the first page
\* among 1..N-1 that matches the caption pattern, and raises the 'could not
\* find the table' error exactly when none of them matches (N = 0 and N = 1
\* included); extract goes on with the text of that page.
C3_FirstMatchingPage ==
  /\ (op = "find_table_page" /\ pc = "done") =>
       /\ MatchingPages # {}
       /\ result.kind = "tuple"
       /\ result.index = Min(MatchingPages)
       /\ result.text = extract_text(pdf, Min(MatchingPages))
  /\ (op = "find_table_page" /\ pc = "raised") =>
       /\ MatchingPages = {}
       /\ raised = NotFound
  /\ (op = "extract" /\ pc = "extract_71") =>
       /\ MatchingPages # {}
       /\ page = extract_text(pdf, Min(MatchingPages))
  /\ (op = "extract" /\ pc = "raised" /\ raised = NotFound) => MatchingPages = {}

\* find_table_page has returned page 2 of a document whose page 1 does not
\* match.
C3_Witness ==
  /\ op = "find_table_page"
  /\ pc = "done"
  /\ Len(pdf) = 3
  /\ result.index = 2

\* C4: find_table_page never asks for the text of page 0, and raises the
\* 'could not find the table' error for a document in which page 0 is the
\* only page that matches the caption pattern.
C4_NeverReadsPage0 ==
  /\ \A k \in 1..Len(reads) : reads[k].by = "find_table_page" => reads[k].page # 0
  /\ (/\ op = "find_table_page"
      /\ pc \in {"done", "raised"}
      /\ Len(pdf) >= 1
      /\ TABLE_CAPTION_PATTERN(extract_text(pdf, 0))
      /\ MatchingPages = {}) =>
       (pc = "raised" /\ raised = NotFound)

\* find_table_page has ended on a document of several pages of which only
\* page 0 matches.
C4_Witness ==
  /\ op = "find_table_page"
  /\ pc = "raised"
  /\ Len(pdf) >= 2
  /\ pdf[1].stamp = "caption"
  /\ Len(reads) = Len(pdf) - 1

\* The number of tokens of a full table, 11 x 16.
FullCount == num_rows * num_columns

\* The token of column c (1..16) of row r (1..11), by its place in the text.
TokenAt(r, c) == tokens[(r - 1) * num_columns + c]

\* Every one of the first 11 x 16 tokens converts under its column's kind.
FirstTokensConvert ==
  /\ Len(tokens) >= FullCount
  /\ \A r \in 1..num_rows : \A c \in 2..num_columns :
       ApplyConverter(COLUMN_CONVERTERS[c], TokenAt(r, c)) # ValueError

\* extract has just returned its table.
Returned == op = "extract" /\ pc = "done"

\* extract has raised while building the rows.
RaisedInRows == op = "extract" /\ pc = "raised" /\ Len(stages) = 3

\* C1 as claimed: a table is returned only when the text from '0-9' on
\* splits into exactly 11 x 16 = 176 tokens.
C1_ExactCountOnly == Returned => Len(tokens) = FullCount

\* C1 as amended: row building raises ValueError when there are fewer than
\* 176 tokens (no row is built past the end of the tokens and no table is
\* returned); with 176 tokens or more the tokens after the 176th are not
\* looked at, and the table is returned exactly when the first 176 convert.
C1_FewerTokensFail ==
  /\ Returned => FirstTokensConvert
  /\ (op = "extract" /\ pc = "extract_79") => row_i * num_columns <= Len(tokens)
  /\ RaisedInRows => (raised = ValueError /\ ~FirstTokensConvert)

\* Row building has raised on a text of fewer than 176 tokens, after the
\* rows before the short one were built.
C1_Witness ==
  /\ RaisedInRows
  /\ Len(tokens) = FullCount - 1
  /\ row_i = num_rows - 1

\* The date extract_datetime gives for page 0.
ReportDate == extract_datetime(extract_text(pdf, 0))

\* C5 as claimed: the returned table has 11 rows, each of them the date of
\* page 0 and 16 fields, field c of row r being the token of column c of the
\* r-th group of 16 tokens, converted under the column's kind.
C5_RowsFromTokens ==
  Returned =>
    /\ Len(result.table) = num_rows
    /\ \A r \in 1..num_rows :
         /\ Len(result.table[r]) = 1 + num_columns
         /\ result.table[r][1] = ReportDate
         /\ \A c \in 1..num_columns :
              result.table[r][1 + c] = ApplyConverter(COLUMN_CONVERTERS[c], TokenAt(r, c))

\* C5 as amended: the same, but for the labels of the rows of index 9 and
\* 10, which are '>=90' and 'unknown' whatever their tokens are.
C5_RowsFromTokensButLabels ==
  Returned =>
    /\ Len(result.table) = num_rows
    /\ \A r \in 1..num_rows :
         /\ Len(result.table[r]) = 1 + num_columns
         /\ result.table[r][1] = ReportDate
         /\ \A c \in 1..num_columns :
              IF c = 1 /\ r = 10 THEN result.table[r][1 + c] = <<">","=","9","0">>
              ELSE IF c = 1 /\ r = 11
              THEN result.table[r][1 + c] = <<"u","n","k","n","o","w","n">>
              ELSE result.table[r][1 + c] = ApplyConverter(COLUMN_CONVERTERS[c], TokenAt(r, c))

\* A table has been returned whose row of index 9 has the token of the
\* report for its label.
C5_Witness ==
  /\ Returned
  /\ TokenAt(10, 1) = <<GeqSign, "9", "0">>
  /\ result.table[1][1].kind = "datetime"

\* The table of `rows` and the table returned differ at most in the labels
\* of the rows of index 9 and 10.
SameButLabels ==
  /\ Len(result.table) = Len(rows)
  /\ \A r \in 1..Len(rows) :
       /\ Len(result.table[r]) = Len(rows[r])
       /\ \A c \in 1..Len(rows[r]) :
            (c = 2 /\ r \in {10, 11}) \/ result.table[r][c] = rows[r][c]

\* C6 as claimed: normalize_table changes nothing but the labels of the rows
\* of index 9 and 10, which become the one-character-sign label and 'unknown'.
C6_LabelsGeqSign ==
  Returned =>
    /\ SameButLabels
    /\ result.table[10][2] = <<GeqSign, "9", "0">>
    /\ result.table[11][2] = <<"u","n","k","n","o","w","n">>

\* C6 as amended: the label of the row of index 9 becomes the ASCII '>=90'.
C6_LabelsAscii ==
  Returned =>
    /\ SameButLabels
    /\ result.table[10][2] = <<">","=","9","0">>
    /\ result.table[11][2] = <<"u","n","k","n","o","w","n">>

\* A table has been normalized whose two last labels were neither '>=90' nor
\* 'unknown' before.
C6_Witness ==
  /\ Returned
  /\ rows[10][2] # <<">","=","9","0">>
  /\ rows[11][2] = <<"x">>

\* C7: in a returned table a numeric field is NaN exactly when its token is
\* empty, and is a finite number otherwise.
C7_MissingIffEmpty ==
  Returned =>
    \A r \in 1..num_rows : \A c \in 2..num_columns :
      /\ (result.table[r][1 + c].kind = "nan") <=> (TokenAt(r, c) = <<>>)
      /\ result.table[r][1 + c].kind \in {"nan", "int", "float"}

\* The text the repair of line 74 starts from: page[data_start:].
Unrepaired == SliceFrom(page, Find(page, <<"0","-","9">>, 0))

\* s without the characters at the places in `drop`.
Without(s, drop) ==
  LET Kept(x) == x[1] \notin drop
      marked == SelectSeq([k \in 1..Len(s) |-> <<k, s[k]>>], Kept)
  IN  [k \in 1..Len(marked) |-> marked[k][2]]

\* The blanks that follow a comma.
BlanksAfterComma(s) == {k \in 2..Len(s) : s[k] = " " /\ s[k - 1] = ","}

\* The blanks that follow a comma, with a digit before the comma and a digit
\* after the blank.
BlanksInNumbers(s) ==
  {k \in BlanksAfterComma(s) : k >= 3 /\ k < Len(s) /\ IsDigit(s[k - 2]) /\ IsDigit(s[k + 1])}

\* C8 as claimed: the tokens are those of the text with the blank of every
\* ', ' between two digits taken out, and nothing else changed.
C8_RepairBetweenDigits ==
  (op = "extract" /\ pc = "extract_79" /\ row_i = 0) =>
    tokens = Split(Without(Unrepaired, BlanksInNumbers(Unrepaired)), " ")

\* C8 as amended: the blank of every ', ' is taken out, whatever is around it.
C8_RepairEveryCommaBlank ==
  (op = "extract" /\ pc = "extract_79" /\ row_i = 0) =>
    /\ raw_data = Without(Unrepaired, BlanksAfterComma(Unrepaired))
    /\ tokens = Split(raw_data, " ")

\* The text held a ', ' between two digits, and the tokens have been made.
C8_Witness ==
  /\ op = "extract"
  /\ pc = "extract_79"
  /\ row_i = 0
  /\ BlanksInNumbers(Unrepaired) # {}
  /\ \E k \in 1..Len(tokens) : tokens[k] = <<"3", ",", "5">>

\* The stages of extract, in their order.
StageOrder == <<"timestamp", "locate", "tokenize", "normalize">>

\* C9: extract ends with a complete normalized table of 11 rows or with one
\* exception and no table; its stages start in the order timestamp, locate,
\* tokenize, normalize, none after a stage has raised; and when no timestamp
\* is found on page 0 no other page has been read.
C9_OneOutcomeInOrder ==
  op = "extract" =>
    /\ stages = SubSeq(StageOrder, 1, Len(stages))
    /\ (result.kind = "DataFrame") <=> (pc \in {"done", "checked"})
    /\ (raised # None) <=> (pc = "raised")
    /\ (pc \in {"done", "checked"}) => (stages = StageOrder /\ raised = None)
    /\ (pc = "done") =>
         /\ Len(result.table) = num_rows
         /\ result.table = normalize_table(result.table)
    /\ (pc = "raised") =>
         /\ result = None
         /\ raised.kind \in {"TableExtractionError", "ValueError", "IndexError"}
         /\ (raised = NoTimestamp \/ raised.kind = "IndexError") => Len(stages) = 1
         /\ (raised = NotFound) => Len(stages) = 2
         /\ (raised = ValueError) => Len(stages) \in {1, 3}
    /\ (raised = NoTimestamp) => reads = <<[by |-> "extract", page |-> 0]>>
    /\ (Len(stages) = 1) => \A k \in 1..Len(reads) : reads[k].page = 0

\* extract has raised for the missing timestamp on a document that has a
\* table page after page 0.
C9_Witness ==
  /\ op = "extract"
  /\ pc = "raised"
  /\ raised = NoTimestamp
  /\ Len(pdf) >= 2
  /\ pdf[2].kind = "table"

\* The sum of the values of column col that are not NaN, from the last row up.
RECURSIVE SumOfPresent(_, _, _)
SumOfPresent(table, col, n) ==
  IF n = 0 THEN 0
  ELSE LET v == table[n][ColumnIndex(col)]
       IN  SumOfPresent(table, col, n - 1) + (IF v.kind = "nan" THEN 0 ELSE v.m)

\* The checked columns whose sum is not the total given.
Mismatching ==
  {col \in CheckedColumnSet : SumOfPresent(result.table, col, num_rows) # totals[col]}

\* C2: sanity_check_with_totals raises exactly when one of the 6 columns has
\* a sum other than the total given for it; the exception names such a
\* column, its sum and its total; the table and the totals are as they were.
C2_RaisesIffMismatch ==
  [][(pc = "done" /\ pc' = "checked") =>
       /\ result' = result
       /\ (check' # None) <=> (Mismatching' # {})
       /\ (check' # None) =>
            /\ check'.kind = "TableExtractionError"
            /\ check'.message.col \in Mismatching'
            /\ check'.message.actual_sum =
                 SumOfPresent(result.table, check'.message.col, num_rows)
            /\ check'.message.expected = totals'[check'.message.col]]_vars

\* The check has raised for the column of the total cases alone.
C2_Witness ==
  /\ pc = "checked"
  /\ check # None
  /\ Mismatching = {<<"", "cases">>}
  /\ check.message.col = <<"", "cases">>

\* A checked column of the returned table holds a NaN.
MissingInChecked ==
  \E col \in CheckedColumnSet : \E r \in 1..num_rows :
    result.table[r][ColumnIndex(col)].kind = "nan"

\* C10: a NaN in a checked column is left out of the sum and is no failure
\* of its own: a table with NaN in its checked columns passes exactly when
\* the values that are there add up to the totals.
C10_MissingSkipped ==
  (pc = "checked" /\ MissingInChecked) => ((check = None) <=> (Mismatching = {}))

\* A table whose column of the male cases is all NaN has passed against a
\* total of 0.
C10_Witness ==
  /\ pc = "checked"
  /\ check = None
  /\ \A r \in 1..num_rows : result.table[r][ColumnIndex(<<"male_", "cases">>)].kind = "nan"
  /\ totals[<<"male_", "cases">>] = 0

=============================================================================
